---- MODULE Spec2Model ----
(***************************************************************************)
(* Model of the price aggregation and availability-monitoring engine of    *)
(* grocery-manager: PriceService.search_all_platforms / compare_prices     *)
(* (src/src/services/price_service.py) and WatchlistService                *)
(* .check_availability / _check_alerts                                     *)
(* (src/src/services/watchlist_service.py).                                *)
(*                                                                         *)
(* Prices are integers; Python's None is the value None (-1).  A Python    *)
(* truth test `if x` on an optional number is Truthy(x): neither None nor  *)
(* zero.  Dicts are insertion-ordered, so they are sequences of records    *)
(* keyed by their platform field.                                          *)
(***************************************************************************)
EXTENDS Integers, Sequences, FiniteSets, TLC

VARIABLES
    adapter_response,   \* what each registered adapter's search_products does
    search_pc,          \* position of the search_all_platforms/compare_prices call
    search_idx,         \* index of the adapter the loop is awaiting
    search_results,     \* the results dict of search_all_platforms
    compare_out,        \* the list compare_prices returns
    item,               \* the WatchlistItem's configuration columns
    db_status,          \* persisted WatchlistItem.availability_status
    db_best,            \* persisted current_best_platform / current_best_price
    db_last_checked,    \* number of cycles that have set last_checked_at
    alerts,             \* the watchlist_alerts table, in insertion order
    sess,               \* per session: the check_availability call in progress
    cycles,             \* number of check cycles started
    stock,              \* the watched source's real stock state (concurrent runs)
    restocks,           \* number of real out-of-stock -> in-stock transitions
    weekly_called,      \* get_weekly_shopping_list has returned since the last check began
    recs,               \* the list get_weekly_shopping_list returned
    inv_item,           \* the inventory_items row the price records belong to
    price_records,      \* the price_records rows of inv_item, in insertion order
    clock,              \* datetime.utcnow()
    ticks,              \* how many times the clock has advanced
    hist_out,           \* what the latest PriceService history call did and returned
    norm_in,            \* the (price, size_str) given to the unit-price normalizers
    norm_out,           \* what the two normalizers returned for norm_in
    alert_call,         \* the latest mark_alert_read / get_unread_alerts call
    inventory,          \* inventory_items: current_quantity of each item id
    consumption_log,    \* the consumption_logs table, in insertion order
    shopping_list,      \* one shopping list: its status and its items
    inv_out             \* the latest inventory / shopping call and what it did

searchVars == <<adapter_response, search_pc, search_idx, search_results, compare_out>>
watchVars == <<item, db_status, db_best, db_last_checked, alerts, sess, cycles>>
worldVars == <<stock, restocks>>
weeklyVars == <<weekly_called, recs>>
historyVars == <<inv_item, price_records, clock, ticks, hist_out>>
normVars == <<norm_in, norm_out>>
readVars == <<alert_call>>
inventoryVars == <<inventory, consumption_log, shopping_list, inv_out>>
vars == <<searchVars, watchVars, worldVars, weeklyVars, historyVars, normVars, readVars,
          inventoryVars>>

-----------------------------------------------------------------------------
(* Python values *)

None == -1

Truthy(x) == x # None /\ x # 0

\* dict[key] = value on an insertion-ordered dict of records with a platform field
DictPut(d, e) ==
    IF \E i \in 1..Len(d) : d[i].platform = e.platform
    THEN [i \in 1..Len(d) |-> IF d[i].platform = e.platform THEN e ELSE d[i]]
    ELSE Append(d, e)

DictKeys(d) == {d[i].platform : i \in 1..Len(d)}

DictHas(d, p) == p \in DictKeys(d)

DictGet(d, p) == d[CHOOSE i \in 1..Len(d) : d[i].platform = p]

-----------------------------------------------------------------------------
(* PriceService: fan-out search and comparison *)

MaxProducts == 2

\* PriceService.adapters in registration order (cli.py price_compare default)
AdapterOrder == <<"fairprice", "amazon_sg", "iherb">>

\* Product.unit_size None
NoSize == <<>>

\* the Products the adapters build: price, unit_price and unit_size
ProductChoices ==
    { [price |-> 4, unit_price |-> None, unit_size |-> <<"5", "0", "0", "g">>],
      [price |-> 9, unit_price |-> 5, unit_size |-> <<"1", ".", "8", "k", "g">>],
      [price |-> 3, unit_price |-> 5, unit_size |-> NoSize] }

ProductLists == UNION { [1..n -> ProductChoices] : n \in 0..MaxProducts }

\* adapter.search_products: returns a SearchResult, raises, or never returns
AdapterOutcomes ==
    { [kind |-> "ok", products |-> l] : l \in ProductLists }
    \cup { [kind |-> "raise", products |-> <<>>], [kind |-> "hang", products |-> <<>>] }

\* the try/except of search_all_platforms around one adapter call
SearchGuardedNoCatch(outcome) ==
    IF outcome.kind = "ok"
    THEN [raised |-> FALSE, products |-> outcome.products]
    ELSE [raised |-> TRUE, products |-> <<>>]

SearchGuarded(outcome) ==
    IF outcome.kind = "ok"
    THEN [raised |-> FALSE, products |-> outcome.products]
    ELSE [raised |-> FALSE, products |-> <<>>]

\* one iteration of the loop of search_all_platforms: await the adapter
SearchStep ==
    /\ search_pc = "searching"
    /\ search_idx <= Len(AdapterOrder)
    /\ LET p == AdapterOrder[search_idx]
           outcome == adapter_response[p]
           r == SearchGuarded(outcome)
       IN /\ outcome.kind # "hang"
          /\ IF r.raised
             THEN /\ search_pc' = "raised"
                  /\ UNCHANGED <<search_results, search_idx>>
             ELSE /\ search_results' =
                        DictPut(search_results, [platform |-> p, products |-> r.products])
                  /\ search_idx' = search_idx + 1
                  /\ search_pc' = search_pc
    /\ UNCHANGED <<adapter_response, compare_out, watchVars, worldVars,
                   weeklyVars, historyVars, normVars, readVars, inventoryVars>>

\* return results
SearchReturn ==
    /\ search_pc = "searching"
    /\ search_idx > Len(AdapterOrder)
    /\ search_pc' = "returned"
    /\ UNCHANGED <<adapter_response, search_idx, search_results, compare_out,
                   watchVars, worldVars, weeklyVars, historyVars, normVars,
                   readVars, inventoryVars>>

RECURSIVE Flatten(_)
\* the nested loops of compare_prices that build all_products
Flatten(results) ==
    IF results = <<>> THEN <<>>
    ELSE LET head == results[1]
         IN [i \in 1..Len(head.products) |->
                [platform |-> head.platform,
                 product |-> head.products[i],
                 price |-> head.products[i].price,
                 unit_price |-> head.products[i].unit_price]]
            \o Flatten(Tail(results))

\* key=lambda x: x.get("unit_price") or x["price"]
SortKeyPriceOnly(x) == x.price

SortKey(x) == IF Truthy(x.unit_price) THEN x.unit_price ELSE x.price

\* position at which a stable sort places x among the already sorted s
InsertPosBeforeEqual(s, x) == Cardinality({i \in 1..Len(s) : SortKey(s[i]) < SortKey(x)})

InsertPos(s, x) == Cardinality({i \in 1..Len(s) : SortKey(s[i]) <= SortKey(x)})

RECURSIVE StableSort(_)
\* list.sort(key=...): ascending and stable
StableSort(s) ==
    IF s = <<>> THEN <<>>
    ELSE LET front == StableSort(SubSeq(s, 1, Len(s) - 1))
             x == s[Len(s)]
             k == InsertPos(front, x)
         IN SubSeq(front, 1, k) \o <<x>> \o SubSeq(front, k + 1, Len(front))

\* the part of compare_prices after search_all_platforms has returned
ComparePrices ==
    /\ search_pc = "returned"
    /\ compare_out' = StableSort(Flatten(search_results))
    /\ search_pc' = "compared"
    /\ UNCHANGED <<adapter_response, search_idx, search_results, watchVars, worldVars,
                   weeklyVars, historyVars, normVars, readVars, inventoryVars>>

-----------------------------------------------------------------------------
(* WatchlistService: availability check cycles *)

MaxCycles == 2

MaxRestocks == 1

AllSessions == {1, 2}

\* the keys of adapters.ADAPTERS that the modelled items name
ADAPTERS == {"fairprice", "amazon_sg", "iherb", "little_farms"}

\* str.lower() on the characters the modelled names use
LowerChar(c) ==
    CASE c = "N" -> "n"
      [] c = "U" -> "u"
      [] c = "R" -> "r"
      [] c = "I" -> "i"
      [] c = "G" -> "g"
      [] c = "K" -> "k"
      [] c = "L" -> "l"
      [] c = "M" -> "m"
      [] OTHER -> c

Lower(str) == [i \in 1..Len(str) |-> LowerChar(str[i])]

\* Python's `sub in str` on strings
Contains(sub, str) ==
    \E k \in 0..(Len(str) - Len(sub)) : SubSeq(str, k + 1, k + Len(sub)) = sub

Brand == <<"N", "U", "R", "I">>

OtherName == <<"o", "r", "t", "i", "z">>

\* search_result.products as the adapters can return it
Listing(name, in_stock, price) == [name |-> name, in_stock |-> in_stock, price |-> price]

SearchListings ==
    { <<>>,
      <<Listing(OtherName, TRUE, 9)>>,
      <<Listing(OtherName, TRUE, 9), Listing(<<"N", "u", "r", "i", " ", "x">>, TRUE, 10)>>,
      <<Listing(<<"x", " ", "n", "u", "r", "i">>, TRUE, 9), Listing(Brand, TRUE, 10)>>,
      <<Listing(Brand, FALSE, 10), Listing(Brand, TRUE, 9)>>,
      <<Listing(Brand, TRUE, 0)>> }

\* what one pass of the probe loop can meet: get_adapter raising,
\* search_products raising, adapter.close raising, or none of them
ProbeOutcomes ==
    { [kind |-> "ctor_raise", products |-> <<>>],
      [kind |-> "search_raise", products |-> <<>>] }
    \cup { [kind |-> k, products |-> l] : k \in {"ok", "close_raise"}, l \in SearchListings }

\* the dict check_specific_url returns (it catches its own exceptions)
\* launched: the browser had been launched when the exception was raised
DirectOutcomes ==
    { [in_stock |-> TRUE, price |-> None, error |-> FALSE, launched |-> TRUE],
      [in_stock |-> TRUE, price |-> 10, error |-> FALSE, launched |-> TRUE],
      [in_stock |-> FALSE, price |-> None, error |-> TRUE, launched |-> TRUE],
      [in_stock |-> FALSE, price |-> None, error |-> TRUE, launched |-> FALSE] }

Entry(p, in_stock, price, error, direct) ==
    [platform |-> p, in_stock |-> in_stock, price |-> price, error |-> error, direct |-> direct]

\* search_keywords of the item
Keywords == << <<"n", "u", "r", "i">>, <<"f", "i", "s", "h">>, <<"o", "i", "l">> >>

\* WatchlistItem rows the checks run on
ItemRow(targets, pp, restock, drop, thr) ==
    [brand |-> Brand, target_platforms |-> targets, platform_products |-> pp,
     notify_on_restock |-> restock, notify_on_price_drop |-> drop,
     price_drop_threshold |-> thr,
     is_active |-> TRUE, weekly_target_qty |-> 2, max_price |-> None,
     name |-> Keywords[2], search_keywords |-> Keywords]

\* the row with other search_keywords
WithKeywords(it, search_keywords) == [it EXCEPT !.search_keywords = search_keywords]

\* the row with max_price set
WithMaxPrice(it, max_price) == [it EXCEPT !.max_price = max_price]

ProductRef(p, search_url) == [platform |-> p, url |-> TRUE, search_url |-> search_url]

ThresholdPcts == {0, 10}

ItemChoices ==
    { ItemRow(<<"amazon_sg", "little_farms">>, <<>>, r, d, t) :
          r \in BOOLEAN, d \in BOOLEAN, t \in ThresholdPcts }
    \cup { WithKeywords(WithMaxPrice(ItemRow(<<"amazon_sg">>,
                                             <<ProductRef("fossa", FALSE)>>,
                                             TRUE, TRUE, 10), 9), <<>>),
           WithMaxPrice(ItemRow(<<"little_farms">>,
                                <<ProductRef("little_farms", FALSE),
                                  ProductRef("amazon_sg", TRUE)>>,
                                TRUE, TRUE, 10), 10) }

IdleSession ==
    [pc |-> "idle", old |-> <<>>, platforms |-> <<>>, results |-> <<>>, didx |-> 1,
     idx |-> 1, probes |-> <<>>, emitted |-> <<>>, unreleased |-> <<>>, seen |-> <<>>]

\* item.target_platforms or list(ADAPTERS.keys()); add_item never stores an
\* empty target list
Platforms(it) == it.target_platforms

\* a source id that is not a key of ADAPTERS
UnknownSource == "fossa"

\* the platforms argument of check_availability: omitted (<<>>) or a list,
\* which may name a source the registry does not have
PlatformArgs(it) ==
    {<<>>, <<it.target_platforms[1]>>, <<UnknownSource, it.target_platforms[1]>>}

\* platforms = platforms or item.target_platforms or list(ADAPTERS.keys())
ResolvedPlatforms(it, arg) == IF arg # <<>> THEN arg ELSE Platforms(it)

\* the platforms the call of session s probes
CallPlatforms(s) == sess[s].platforms

RECURSIVE SeenAfter(_, _)
\* what each source last showed to a probe that did not fault, kept to state
\* the properties: the earlier observations and then those of `probes`
SeenAfter(seen, probes) ==
    IF probes = <<>> THEN seen
    ELSE SeenAfter(IF probes[1].faulted THEN seen
                   ELSE DictPut(seen, [platform |-> probes[1].platform,
                                       in_stock |-> probes[1].in_stock]),
                   Tail(probes))

\* get_item / get_all_items: the session loads its own copy of the row; at
\* most `bound` cycles are started
LoadCycle(s, bound) ==
    /\ sess[s].pc \in {"idle", "done"}
    /\ cycles < bound
    /\ cycles' = cycles + 1
    /\ \E arg \in PlatformArgs(item) :
           sess' = [sess EXCEPT ![s] = [IdleSession EXCEPT !.pc = "checking",
                                                           !.old = db_status,
                                                           !.seen =
                                                               SeenAfter(sess[s].seen,
                                                                         sess[s].probes),
                                                           !.platforms =
                                                               ResolvedPlatforms(item, arg)]]
    /\ weekly_called' = FALSE
    /\ recs' = <<>>
    /\ UNCHANGED <<item, db_status, db_best, db_last_checked, alerts, searchVars, worldVars,
                   historyVars, normVars, readVars, inventoryVars>>

\* check_specific_url closes context, browser and playwright as the last
\* statements of its try block: an exception after the launch skips them
BrowserLeft(d) == d.error /\ d.launched

\* the adapter get_adapter returned is closed by the last statement of the
\* try block of the probe loop: an exception in search_products skips it
AdapterLeft(p, outcome) == p \in ADAPTERS /\ outcome.kind = "search_raise"

Load(s) == LoadCycle(s, MaxCycles)

\* one pass of the loop over item.platform_products (direct URL checks)
DirectStep(s, d) ==
    /\ sess[s].pc = "checking"
    /\ sess[s].didx <= Len(item.platform_products)
    /\ LET ref == item.platform_products[sess[s].didx]
           checked == ref.url /\ ~ref.search_url
           e == Entry(ref.platform, d.in_stock, d.price, d.error, TRUE)
       IN sess' = [sess EXCEPT ![s].didx = @ + 1,
                               ![s].results = IF checked THEN DictPut(@, e) ELSE @,
                               ![s].unreleased =
                                   IF checked /\ BrowserLeft(d)
                                   THEN Append(@, ref.platform) ELSE @]
    /\ UNCHANGED <<item, db_status, db_best, db_last_checked, alerts, cycles,
                   searchVars, worldVars, weeklyVars, historyVars, normVars,
                   readVars, inventoryVars>>

RECURSIVE Join(_)
\* " ".join(words)
Join(words) ==
    IF words = <<>> THEN <<>>
    ELSE IF Len(words) = 1 THEN words[1]
    ELSE words[1] \o <<" ">> \o Join(Tail(words))

\* search_terms = item.search_keywords or [item.name]; " ".join(search_terms[:2])
Query(it) ==
    LET search_terms == IF it.search_keywords # <<>> THEN it.search_keywords
                        ELSE <<it.name>>
    IN Join(SubSeq(search_terms, 1, IF Len(search_terms) < 2 THEN Len(search_terms) ELSE 2))

\* brand_lower in name_lower
BrandInNameCaseSensitive(brand, name) == Contains(brand, name)

BrandInName(brand, name) == Contains(Lower(brand), Lower(name))

RECURSIVE FirstMatch(_, _)
\* the loop that looks for the first product whose name contains the brand;
\* 0 when there is none
FirstMatch(products, brand) ==
    IF products = <<>> THEN 0
    ELSE IF BrandInName(brand, products[1].name) THEN 1
    ELSE LET r == FirstMatch(Tail(products), brand)
         IN IF r = 0 THEN 0 ELSE r + 1

ProbeFaulted(p, outcome) == p \notin ADAPTERS \/ outcome.kind # "ok"

\* the body of the try block of the probe loop and its except clause
ProbeGuardedNoCatch(it, p, outcome) ==
    LET found == FirstMatch(outcome.products, it.brand)
    IN IF ProbeFaulted(p, outcome)
       THEN [raised |-> TRUE, entry |-> Entry(p, FALSE, None, TRUE, FALSE)]
       ELSE IF found # 0
       THEN [raised |-> FALSE,
             entry |-> Entry(p, outcome.products[found].in_stock,
                             outcome.products[found].price, FALSE, FALSE)]
       ELSE [raised |-> FALSE, entry |-> Entry(p, FALSE, None, FALSE, FALSE)]

ProbeGuarded(it, p, outcome) ==
    LET found == FirstMatch(outcome.products, it.brand)
    IN IF ProbeFaulted(p, outcome)
       THEN [raised |-> FALSE, entry |-> Entry(p, FALSE, None, TRUE, FALSE)]
       ELSE IF found # 0
       THEN [raised |-> FALSE,
             entry |-> Entry(p, outcome.products[found].in_stock,
                             outcome.products[found].price, FALSE, FALSE)]
       ELSE [raised |-> FALSE, entry |-> Entry(p, FALSE, None, FALSE, FALSE)]

\* what the source showed to the probe, kept to state the properties
Observed(it, p, outcome) ==
    LET faulted == ProbeFaulted(p, outcome)
        hit == IF faulted THEN {}
               ELSE {i \in 1..Len(outcome.products) :
                        /\ Contains(Lower(it.brand), Lower(outcome.products[i].name))
                        /\ \A j \in 1..(i - 1) :
                               ~Contains(Lower(it.brand), Lower(outcome.products[j].name))}
    IN [platform |-> p, faulted |-> faulted, matched |-> hit # {},
        query |-> Query(it), products |-> IF faulted THEN <<>> ELSE outcome.products,
        in_stock |-> IF hit = {} THEN FALSE ELSE outcome.products[CHOOSE i \in hit : TRUE].in_stock,
        price |-> IF hit = {} THEN None ELSE outcome.products[CHOOSE i \in hit : TRUE].price]

\* one pass of the loop over platforms (search probes)
ProbeStep(s, outcome) ==
    /\ sess[s].pc = "checking"
    /\ sess[s].didx > Len(item.platform_products)
    /\ sess[s].idx <= Len(CallPlatforms(s))
    /\ LET p == CallPlatforms(s)[sess[s].idx]
           r == ProbeGuarded(item, p, outcome)
       IN sess' = IF r.raised
                  THEN [sess EXCEPT ![s].pc = "raised"]
                  ELSE [sess EXCEPT ![s].idx = @ + 1,
                                    ![s].results = DictPut(@, r.entry),
                                    ![s].probes = Append(@, Observed(item, p, outcome)),
                                    ![s].unreleased =
                                        IF AdapterLeft(p, outcome) THEN Append(@, p) ELSE @]
    /\ UNCHANGED <<item, db_status, db_best, db_last_checked, alerts, cycles,
                   searchVars, worldVars, weeklyVars, historyVars, normVars,
                   readVars, inventoryVars>>

\* old_status.get(platform, {}) read through .get("in_stock") / .get("price")
OldEntry(old_status, p) ==
    IF DictHas(old_status, p)
    THEN [in_stock |-> DictGet(old_status, p).in_stock, price |-> DictGet(old_status, p).price]
    ELSE [in_stock |-> FALSE, price |-> None]

Alert(type, p, old_price, new_price) ==
    [alert_type |-> type, platform |-> p, old_price |-> old_price,
     new_price |-> new_price, is_read |-> FALSE]

\* price_change >= item.price_drop_threshold, the threshold in percent
PriceChangeAtLeast(old_price, new_price, thr) ==
    (old_price - new_price) * 100 >= thr * old_price

\* the restock branch of _check_alerts for one platform
RestockAlertsNoBaseline(it, old, status) ==
    IF status.in_stock /\ it.notify_on_restock
    THEN <<Alert("restock", status.platform, None, status.price)>>
    ELSE <<>>

RestockAlerts(it, old, status) ==
    IF status.in_stock /\ ~old.in_stock /\ it.notify_on_restock
    THEN <<Alert("restock", status.platform, None, status.price)>>
    ELSE <<>>

\* the price-drop branch of _check_alerts for one platform
PriceDropAlertsTwice(it, old, status) ==
    IF /\ Truthy(status.price) /\ Truthy(old.price)
       /\ PriceChangeAtLeast(old.price, status.price, it.price_drop_threshold)
       /\ it.notify_on_price_drop
    THEN <<Alert("price_drop", status.platform, old.price, status.price),
           Alert("price_drop", status.platform, old.price, status.price)>>
    ELSE <<>>

PriceDropAlerts(it, old, status) ==
    IF /\ Truthy(status.price) /\ Truthy(old.price)
       /\ PriceChangeAtLeast(old.price, status.price, it.price_drop_threshold)
       /\ it.notify_on_price_drop
    THEN <<Alert("price_drop", status.platform, old.price, status.price)>>
    ELSE <<>>

RECURSIVE CheckAlerts(_, _, _)
\* _check_alerts: the alerts it adds, in order
CheckAlerts(it, old_status, new_status) ==
    IF new_status = <<>> THEN <<>>
    ELSE LET status == new_status[1]
             old == OldEntry(old_status, status.platform)
         IN RestockAlerts(it, old, status) \o PriceDropAlerts(it, old, status)
            \o CheckAlerts(it, old_status, Tail(new_status))

IsAvailable(e) == e.in_stock /\ Truthy(e.price)

RECURSIVE DictUpdate(_, _)
\* dict.update: d with the entries of e put into it
DictUpdate(d, e) == IF e = <<>> THEN d ELSE DictUpdate(DictPut(d, e[1]), Tail(e))

\* item.availability_status = results
SwappedSnapshotMerged(old_status, results) == DictUpdate(old_status, results)

SwappedSnapshot(old_status, results) == results

\* min(available, key=price): the first entry of minimal price
BestOf(available) ==
    available[CHOOSE i \in 1..Len(available) :
                 /\ \A j \in 1..Len(available) : available[i].price <= available[j].price
                 /\ \A j \in 1..(i - 1) : available[j].price > available[i].price]

\* the end of check_availability: swap the snapshot, best deal, alerts, commit
Finish(s) ==
    /\ sess[s].pc = "checking"
    /\ sess[s].didx > Len(item.platform_products)
    /\ sess[s].idx > Len(CallPlatforms(s))
    /\ LET old_status == sess[s].old
           results == sess[s].results
           available == SelectSeq(results, IsAvailable)
           created == IF available # <<>>
                      THEN CheckAlerts(item, old_status, results)
                      ELSE <<>>
       IN /\ db_status' = SwappedSnapshot(old_status, results)
          /\ db_last_checked' = db_last_checked + 1
          /\ db_best' = IF available # <<>>
                        THEN [platform |-> BestOf(available).platform,
                              price |-> BestOf(available).price]
                        ELSE db_best
          /\ alerts' = alerts \o created
          /\ sess' = [sess EXCEPT ![s].pc = "done", ![s].emitted = created]
    /\ UNCHANGED <<item, cycles, searchVars, worldVars, weeklyVars, historyVars, normVars,
                   readVars, inventoryVars>>

\* the watched source comes back in stock
Restock ==
    /\ ~stock
    /\ restocks < MaxRestocks
    /\ stock' = TRUE
    /\ restocks' = restocks + 1
    /\ UNCHANGED <<searchVars, watchVars, weeklyVars, historyVars, normVars,
                   readVars, inventoryVars>>

WatchedSource == "amazon_sg"

\* what the probe of platform p sees: the watched source follows `stock`,
\* the other sources keep the product in stock
WorldOutcome(p) ==
    IF p = WatchedSource
    THEN [kind |-> "ok", products |-> <<Listing(Brand, stock, 10)>>]
    ELSE [kind |-> "ok", products |-> <<Listing(Brand, TRUE, 9)>>]

\* the platform session s probes next
NextPlatform(s) ==
    IF sess[s].idx <= Len(CallPlatforms(s)) THEN CallPlatforms(s)[sess[s].idx] ELSE ""

-----------------------------------------------------------------------------
(* WatchlistService: weekly recommendations *)

\* WatchlistItem.is_available_anywhere
IsAvailableAnywhere(status) ==
    status # <<>> /\ \E i \in 1..Len(status) : status[i].in_stock

NoDeal == [platform |-> "", price |-> None]

\* WatchlistItem.get_best_deal: None (NoDeal) or the first entry of minimal
\* price among those in stock with a price
GetBestDeal(status) ==
    LET available == SelectSeq(status, IsAvailable)
    IN IF status = <<>> \/ available = <<>>
       THEN NoDeal
       ELSE [platform |-> BestOf(available).platform, price |-> BestOf(available).price]

\* item.max_price and best_deal["price"] > item.max_price
OverBudgetInclusive(it, price) == Truthy(it.max_price) /\ price >= it.max_price

OverBudget(it, price) == Truthy(it.max_price) /\ price > it.max_price

Recommendation(status, quantity, deal, total, best_deal) ==
    [status |-> status, quantity |-> quantity, platform |-> deal.platform,
     price |-> deal.price, total |-> total, best_deal |-> best_deal]

\* the body of the loop of get_weekly_shopping_list for one item
RecommendationsFor(it, status) ==
    IF ~IsAvailableAnywhere(status)
    THEN <<Recommendation("unavailable", None, NoDeal, None, NoDeal)>>
    ELSE LET best_deal == GetBestDeal(status)
         IN IF best_deal = NoDeal THEN <<>>
            ELSE IF OverBudget(it, best_deal.price)
            THEN <<Recommendation("over_budget", None, NoDeal, None, best_deal)>>
            ELSE <<Recommendation("available", it.weekly_target_qty, best_deal,
                                  best_deal.price * it.weekly_target_qty, NoDeal)>>

\* get_weekly_shopping_list, called between checks: get_all_items(active_only)
\* and one pass of the loop per item
GetWeeklyShoppingList ==
    /\ \A s \in AllSessions : sess[s].pc # "checking"
    /\ ~weekly_called
    /\ weekly_called' = TRUE
    /\ recs' = IF item.is_active THEN RecommendationsFor(item, db_status) ELSE <<>>
    /\ UNCHANGED <<searchVars, watchVars, worldVars, historyVars, normVars,
                   readVars, inventoryVars>>

-----------------------------------------------------------------------------
(* PriceService: price history of one inventory item; the clock counts days *)

MaxRecords == 3
MaxTicks == 2

AlertWindowDays == 7
DefaultRetentionDays == 90

\* days that pass between two calls
TickDays == {3, 4, DefaultRetentionDays}

\* the `days` cleanup_old_records is called with
RetentionDays == {3, AlertWindowDays, DefaultRetentionDays}

\* get_price_alerts(threshold_percent)
AlertThresholds == {10, 15}

HistoryPlatforms == {"fairprice", "amazon_sg"}

\* (price, in_stock) of the products save_price_record stores
Quotes == { <<100, TRUE>>, <<90, TRUE>>, <<85, TRUE>>, <<85, FALSE>> }

PriceRecord(platform, quote, scraped_at) ==
    [platform |-> platform, price |-> quote[1], in_stock |-> quote[2],
     scraped_at |-> scraped_at]

NoRecord == PriceRecord("", <<None, FALSE>>, None)

IdleHistory == [op |-> "none", arg |-> None, rows |-> <<>>, removed |-> <<>>]

RECURSIVE Reverse(_)
Reverse(q) == IF q = <<>> THEN <<>> ELSE Append(Reverse(Tail(q)), Head(q))

\* save_price_record: scraped_at defaults to utcnow(); two rows of the item
\* never carry the same timestamp
SavePriceRecord(platform, quote) ==
    /\ Len(price_records) < MaxRecords
    /\ price_records # <<>> => price_records[Len(price_records)].scraped_at < clock
    /\ price_records' = Append(price_records, PriceRecord(platform, quote, clock))
    /\ hist_out' = IdleHistory
    /\ UNCHANGED <<inv_item, clock, ticks, searchVars, watchVars, worldVars, weeklyVars,
                   normVars, readVars, inventoryVars>>

\* time passing
Tick(days) ==
    /\ ticks < MaxTicks
    /\ ticks' = ticks + 1
    /\ clock' = clock + days
    /\ hist_out' = IdleHistory
    /\ UNCHANGED <<inv_item, price_records, searchVars, watchVars, worldVars, weeklyVars,
                   normVars, readVars, inventoryVars>>

\* get_price_history(item, days): rows with scraped_at >= cutoff, newest
\* first (rows are inserted in timestamp order)
GetPriceHistory(records, now, days) ==
    Reverse(SelectSeq(records, LAMBDA r : r.scraped_at >= now - days))

\* change = (latest - previous) / previous * 100; change <= -threshold_percent
DroppedByStrict(latest, previous, threshold_percent) ==
    (latest.price - previous.price) * 100 < (0 - threshold_percent) * previous.price

DroppedBy(latest, previous, threshold_percent) ==
    (latest.price - previous.price) * 100 <= (0 - threshold_percent) * previous.price

\* the alert dict; change_percent is the fraction change_num / change_den
PriceAlert(latest, previous) ==
    [platform |-> latest.platform, current_price |-> latest.price,
     previous_price |-> previous.price,
     change_num |-> (latest.price - previous.price) * 100, change_den |-> previous.price]

\* the loop body of get_price_alerts for the item
PriceAlertsFor(records, now, threshold_percent) ==
    LET history == GetPriceHistory(records, now, AlertWindowDays)
    IN IF Len(history) >= 2 /\ history[2].price > 0
          /\ DroppedBy(history[1], history[2], threshold_percent)
       THEN <<PriceAlert(history[1], history[2])>>
       ELSE <<>>

\* get_price_alerts: the active inventory items, then the loop
GetPriceAlerts(threshold_percent) ==
    /\ hist_out' = [op |-> "alerts", arg |-> threshold_percent,
                    rows |-> IF inv_item.is_active = 1
                             THEN PriceAlertsFor(price_records, clock, threshold_percent)
                             ELSE <<>>,
                    removed |-> <<>>]
    /\ UNCHANGED <<inv_item, price_records, clock, ticks, searchVars, watchVars,
                   worldVars, weeklyVars, normVars, readVars, inventoryVars>>

\* the subquery of get_best_price joined back: the rows carrying their
\* platform's max(scraped_at)
LatestPerPlatformAny(records) == records

LatestPerPlatform(records) ==
    SelectSeq(records, LAMBDA r :
        \A j \in 1..Len(records) :
            records[j].platform = r.platform => records[j].scraped_at <= r.scraped_at)

\* the rows get_best_price's query can put first: in stock, minimal price
BestPriceRows(records) ==
    LET latest == SelectSeq(LatestPerPlatform(records), LAMBDA r : r.in_stock)
    IN { latest[i] : i \in { k \in 1..Len(latest) :
                                 \A j \in 1..Len(latest) : latest[k].price <= latest[j].price } }

\* get_best_price: .first() of the query, None (NoRecord) when it is empty
GetBestPrice ==
    /\ \E r \in (IF BestPriceRows(price_records) = {} THEN {NoRecord}
                 ELSE BestPriceRows(price_records)) :
           hist_out' = [op |-> "best", arg |-> None, rows |-> <<r>>, removed |-> <<>>]
    /\ UNCHANGED <<inv_item, price_records, clock, ticks, searchVars, watchVars,
                   worldVars, weeklyVars, normVars, readVars, inventoryVars>>

\* the rows cleanup_old_records leaves: it deletes scraped_at < cutoff
RetainedStrict(records, cutoff) == SelectSeq(records, LAMBDA r : r.scraped_at > cutoff)

Retained(records, cutoff) == SelectSeq(records, LAMBDA r : r.scraped_at >= cutoff)

\* cleanup_old_records(days)
CleanupOldRecords(days) ==
    LET kept == Retained(price_records, clock - days)
    IN /\ price_records' = kept
       /\ hist_out' = [op |-> "cleanup", arg |-> days, rows |-> <<>>,
                       removed |-> SelectSeq(price_records, LAMBDA r :
                                       \A i \in 1..Len(kept) : kept[i] # r)]
       /\ UNCHANGED <<inv_item, clock, ticks, searchVars, watchVars, worldVars, weeklyVars,
                      normVars, readVars, inventoryVars>>

-----------------------------------------------------------------------------
(* WatchlistService: reading alerts *)

\* a call on the alerts table: its name, its argument, the number of rows
\* it found in the table and the ids it returned
AlertCall(op, alert_id, size, rows) ==
    [op |-> op, alert_id |-> alert_id, size |-> size, rows |-> rows]

NotAsked == AlertCall("none", None, 0, <<>>)

\* WatchlistAlert.id: the primary key counts the inserted rows
AlertIds == 1..(Len(alerts) + 1)

\* what mark_alert_read makes of the table
MarkedReadAll(table, alert_id) ==
    IF alert_id \in 1..Len(table)
    THEN [i \in 1..Len(table) |-> [table[i] EXCEPT !.is_read = TRUE]]
    ELSE table

MarkedRead(table, alert_id) ==
    [i \in 1..Len(table) |->
        IF i = alert_id THEN [table[i] EXCEPT !.is_read = TRUE] ELSE table[i]]

\* mark_alert_read(alert_id)
MarkAlertRead(alert_id) ==
    /\ alerts' = MarkedRead(alerts, alert_id)
    /\ alert_call' = AlertCall("mark", alert_id, Len(alerts), <<>>)
    /\ UNCHANGED <<item, db_status, db_best, db_last_checked, sess, cycles, searchVars,
                   worldVars, weeklyVars, historyVars, normVars, inventoryVars>>

\* the ids of the rows with is_read == False, newest first
UnreadIds(table) ==
    Reverse(SelectSeq([i \in 1..Len(table) |-> i], LAMBDA i : ~table[i].is_read))

\* get_unread_alerts()
GetUnreadAlerts ==
    /\ alert_call' = AlertCall("unread", None, Len(alerts), UnreadIds(alerts))
    /\ UNCHANGED <<searchVars, watchVars, worldVars, weeklyVars, historyVars, normVars,
                   inventoryVars>>

-----------------------------------------------------------------------------
(* InventoryService.update_quantity and ShoppingService.complete_list: the
   inventory_items rows by id, one shopping list (id 1) and its items *)

MaxInventoryCalls == 4

\* the call a service received: op, the id given, the quantity_change, the
\* flag given (log_consumption / update_inventory), and how many calls so far
InventoryCall(op, id, quantity_change, flag) ==
    [op |-> op, id |-> id, quantity_change |-> quantity_change, flag |-> flag,
     calls |-> inv_out.calls + 1]

IdleInventory ==
    [op |-> "none", id |-> None, quantity_change |-> 0, flag |-> FALSE, calls |-> 0]

\* the inventory_items rows: current_quantity by id
InventoryRows == <<1, 4>>

\* ids a caller passes: those of the rows and one the table does not have
InventoryIds == 1..(Len(inventory) + 1)

\* quantity_change values: a consumption and a purchase
QuantityChanges == {-3, 2}

\* a shopping_list_items row
ListItem(inventory_item_id, quantity_needed) ==
    [inventory_item_id |-> inventory_item_id, quantity_needed |-> quantity_needed,
     is_purchased |-> 0]

\* the items of the list: two linked to inventory rows, one custom
ListItems == <<ListItem(1, 2), ListItem(2, 1), ListItem(None, 1)>>

ListIds == {1, 2}

\* get_item_by_id returns a row
Found(inv, item_id) == item_id \in DOMAIN inv

\* current_quantity after the change, never clamped
NewQuantityUnclamped(current_quantity, quantity_change) ==
    current_quantity + quantity_change

\* item.current_quantity += quantity_change, set to 0 when below 0
NewQuantity(current_quantity, quantity_change) ==
    IF current_quantity + quantity_change < 0 THEN 0
    ELSE current_quantity + quantity_change

\* the rows after update_quantity(item_id, quantity_change)
UpdatedRows(inv, item_id, quantity_change) ==
    IF ~Found(inv, item_id) THEN inv
    ELSE [inv EXCEPT ![item_id] = NewQuantity(inv[item_id], quantity_change)]

\* the consumption_logs rows after update_quantity
UpdatedLog(inv, log, item_id, quantity_change, log_consumption) ==
    IF Found(inv, item_id) /\ quantity_change < 0 /\ log_consumption
    THEN Append(log, [inventory_item_id |-> item_id,
                      quantity_consumed |-> -quantity_change])
    ELSE log

\* InventoryService.update_quantity
UpdateQuantity(item_id, quantity_change, log_consumption) ==
    /\ inv_out.calls < MaxInventoryCalls
    /\ inventory' = UpdatedRows(inventory, item_id, quantity_change)
    /\ consumption_log' = UpdatedLog(inventory, consumption_log, item_id,
                                     quantity_change, log_consumption)
    /\ inv_out' = InventoryCall("update_quantity", item_id, quantity_change,
                                log_consumption)
    /\ UNCHANGED <<shopping_list, searchVars, watchVars, worldVars, weeklyVars,
                   historyVars, normVars, readVars>>

\* ShoppingService.mark_item_purchased: the row with that id, if any
MarkItemPurchased(item_id) ==
    /\ inv_out.calls < MaxInventoryCalls
    /\ shopping_list' =
           IF item_id \in DOMAIN shopping_list.items
           THEN [shopping_list EXCEPT !.items[item_id].is_purchased = 1]
           ELSE shopping_list
    /\ inv_out' = InventoryCall("mark_item_purchased", item_id, 0, FALSE)
    /\ UNCHANGED <<inventory, consumption_log, searchVars, watchVars, worldVars,
                   weeklyVars, historyVars, normVars, readVars>>

RECURSIVE Restocked(_, _)
\* the loop of complete_list over shopping_list.items: update_quantity with
\* log_consumption=False for each purchased item linked to an inventory row
Restocked(inv, items) ==
    IF items = <<>> THEN inv
    ELSE Restocked(IF Truthy(items[1].inventory_item_id) /\ Truthy(items[1].is_purchased)
                   THEN UpdatedRows(inv, items[1].inventory_item_id,
                                    items[1].quantity_needed)
                   ELSE inv,
                   Tail(items))

\* ShoppingService.complete_list: None for an unknown list; otherwise the
\* loop when update_inventory, then status = "completed"
CompleteList(list_id, update_inventory) ==
    /\ inv_out.calls < MaxInventoryCalls
    /\ IF list_id # 1
       THEN UNCHANGED <<inventory, shopping_list>>
       ELSE /\ inventory' = IF update_inventory
                            THEN Restocked(inventory, shopping_list.items)
                            ELSE inventory
            /\ shopping_list' = [shopping_list EXCEPT !.status = "completed"]
    /\ inv_out' = InventoryCall("complete_list", list_id, 0, update_inventory)
    /\ UNCHANGED <<consumption_log, searchVars, watchVars, worldVars, weeklyVars,
                   historyVars, normVars, readVars>>

-----------------------------------------------------------------------------
(* Unit-price normalizers: PriceRecord.calculate_unit_price and
   FairPriceAdapter._calculate_unit_price *)

\* size texts as the product cards carry them
SizeTexts ==
    {
      <<"5", "0", "0", "g">>, <<"1", "k", "g">>, <<"2", "5", "0", "m", "l">>,
      <<"2", "l">>, <<"1", "p", "c">>, <<"6", "p", "c", "s">>,
      <<"1", "p", "i", "e", "c", "e">>, <<"2", "p", "i", "e", "c", "e", "s">>, <<"4", "p", "a", "c", "k">>,
      <<"1", "e", "a", "c", "h">>, <<"0", "g">>, <<"0", "k", "g">>,
      <<"0", "m", "l">>, <<"0", " ", "p", "c", "s">>, <<"0", "e", "a", "c", "h">>,
      <<"1", ".", "5", "k", "g">>, <<"0", ".", "5", " ", "l">>, <<"5", "0", "0", " ", "G", " ">>,
      <<" ", "2", " ", "K", "G">>, <<"2", "5", "0", "M", "L">>, <<"3", " ", "o", "z">>,
      <<"1", "2">>, <<"g", "5", "0", "0">>, <<"1", ".", "g">>,
      <<>> }

NormPrices == {3, 12}

Digits == {"0", "1", "2", "3", "4", "5", "6", "7", "8", "9"}

DigitValue(c) ==
    CASE c = "0" -> 0 [] c = "1" -> 1 [] c = "2" -> 2 [] c = "3" -> 3 [] c = "4" -> 4
      [] c = "5" -> 5 [] c = "6" -> 6 [] c = "7" -> 7 [] c = "8" -> 8 [] c = "9" -> 9

RECURSIVE StripLeft(_)
StripLeft(str) == IF str # <<>> /\ Head(str) = " " THEN StripLeft(Tail(str)) ELSE str

\* str.strip()
Strip(str) == Reverse(StripLeft(Reverse(StripLeft(str))))

RECURSIVE LeadingDigits(_)
\* how many characters \d+ consumes at the start of str
LeadingDigits(str) ==
    IF str # <<>> /\ Head(str) \in Digits THEN 1 + LeadingDigits(Tail(str)) ELSE 0

RECURSIVE DecimalValue(_)
DecimalValue(digits) ==
    IF digits = <<>> THEN 0
    ELSE DecimalValue(SubSeq(digits, 1, Len(digits) - 1)) * 10
             + DigitValue(digits[Len(digits)])

RECURSIVE Pow10(_)
Pow10(k) == IF k = 0 THEN 1 ELSE 10 * Pow10(k - 1)

StartsWith(str, prefix) ==
    Len(prefix) <= Len(str) /\ SubSeq(str, 1, Len(prefix)) = prefix

\* the alternation (kg|g|l|ml|pcs?|pieces?|pack) in the order the regex
\* engine tries it
ModelUnits ==
    << <<"k", "g">>, <<"g">>, <<"l">>, <<"m", "l">>, <<"p", "c", "s">>, <<"p", "c">>,
       <<"p", "i", "e", "c", "e", "s">>, <<"p", "i", "e", "c", "e">>,
       <<"p", "a", "c", "k">> >>

\* the adapter's alternation ends with |each
AdapterUnits == Append(ModelUnits, <<"e", "a", "c", "h">>)

NoMatch == [matched |-> FALSE, num |-> 0, den |-> 1, unit |-> <<>>]

\* re.match(r"(\d+(?:\.\d+)?)\s*(<units>)", str): group 1 as the fraction
\* num / den, group 2 as unit
ReMatch(str, units) ==
    LET n == LeadingDigits(str)
        rest1 == SubSeq(str, n + 1, Len(str))
        m == IF rest1 # <<>> /\ Head(rest1) = "." THEN LeadingDigits(Tail(rest1)) ELSE 0
        rest2 == IF m > 0 THEN SubSeq(rest1, m + 2, Len(rest1)) ELSE rest1
        rest3 == StripLeft(rest2)
        hits == { k \in 1..Len(units) : StartsWith(rest3, units[k]) }
    IN IF n = 0 \/ hits = {} THEN NoMatch
       ELSE [matched |-> TRUE,
             num |-> DecimalValue(SubSeq(str, 1, n)
                                  \o (IF m > 0 THEN SubSeq(rest1, 2, m + 1) ELSE <<>>)),
             den |-> Pow10(m),
             unit |-> units[CHOOSE k \in hits : \A j \in hits : k <= j]]

\* what a normalizer call does: returns the float num / den, returns None,
\* or raises ZeroDivisionError
Value(num, den) == [kind |-> "value", num |-> num, den |-> den]
NoneResult == [kind |-> "none", num |-> 0, den |-> 1]
Raised == [kind |-> "raise", num |-> 0, den |-> 1]
Pending == [kind |-> "pending", num |-> 0, den |-> 1]

PerThousand == {<<"g">>, <<"m", "l">>}

\* PriceRecord.calculate_unit_price(price, size_str)
calculate_unit_price(price, size_str) ==
    LET match == ReMatch(Strip(Lower(size_str)), ModelUnits)
    IN IF ~match.matched THEN NoneResult
       ELSE IF match.num = 0 THEN Raised
       ELSE IF match.unit \in PerThousand
            THEN Value(price * 1000 * match.den, match.num)
            ELSE Value(price * match.den, match.num)

\* FairPriceAdapter._calculate_unit_price(price, size_str)
AdapterCalculateUnitPrice(price, size_str) ==
    LET match == ReMatch(Strip(Lower(size_str)), AdapterUnits)
    IN IF ~match.matched THEN NoneResult
       ELSE IF match.num = 0 THEN NoneResult
       ELSE IF match.unit \in PerThousand
            THEN Value(price * match.den * 1000, match.num)
            ELSE Value(price * match.den, match.num)

\* a call of the model normalizer
CallModelNormalizer ==
    /\ norm_out.model = Pending
    /\ norm_out' = [norm_out EXCEPT
                        !.model = calculate_unit_price(norm_in.price, norm_in.size_str)]
    /\ UNCHANGED <<norm_in, searchVars, watchVars, worldVars, weeklyVars, historyVars,
                   readVars, inventoryVars>>

\* a call of the adapter normalizer
CallAdapterNormalizer ==
    /\ norm_out.adapter = Pending
    /\ norm_out' = [norm_out EXCEPT
                        !.adapter = AdapterCalculateUnitPrice(norm_in.price,
                                                              norm_in.size_str)]
    /\ UNCHANGED <<norm_in, searchVars, watchVars, worldVars, weeklyVars, historyVars,
                   readVars, inventoryVars>>

-----------------------------------------------------------------------------
(* Specifications *)

InitSearchIdle ==
    /\ adapter_response = [p \in {AdapterOrder[i] : i \in 1..Len(AdapterOrder)} |->
                              [kind |-> "ok", products |-> <<>>]]
    /\ search_pc = "searching"
    /\ search_idx = 1
    /\ search_results = <<>>
    /\ compare_out = <<>>

\* the tables as they are before the first check (column defaults)
InitTables ==
    /\ db_status = <<>>
    /\ db_best = [platform |-> "", price |-> None]
    /\ db_last_checked = 0
    /\ alerts = <<>>
    /\ sess = [s \in AllSessions |-> IdleSession]
    /\ cycles = 0
    /\ stock = FALSE
    /\ restocks = 0
    /\ weekly_called = FALSE
    /\ recs = <<>>
    /\ alert_call = NotAsked

\* inventory and shopping tables nobody has written to
InitInventoryIdle ==
    /\ inventory = <<>>
    /\ consumption_log = <<>>
    /\ shopping_list = [status |-> "draft", items |-> <<>>]
    /\ inv_out = IdleInventory

InitHistoryIdle ==
    /\ inv_item = [is_active |-> 1]
    /\ price_records = <<>>
    /\ clock = 0
    /\ ticks = 0
    /\ hist_out = IdleHistory

InitNormIdle ==
    /\ norm_in = [price |-> 0, size_str |-> <<>>]
    /\ norm_out = [model |-> Pending, adapter |-> Pending]

InitWatchIdle ==
    /\ item = ItemRow(<<"amazon_sg", "little_farms">>, <<>>, TRUE, TRUE, 10)
    /\ InitTables

InitSearch ==
    /\ adapter_response \in [{AdapterOrder[i] : i \in 1..Len(AdapterOrder)} -> AdapterOutcomes]
    /\ search_pc = "searching"
    /\ search_idx = 1
    /\ search_results = <<>>
    /\ compare_out = <<>>
    /\ InitWatchIdle
    /\ InitHistoryIdle
    /\ InitNormIdle
    /\ InitInventoryIdle

NextSearch == SearchStep \/ SearchReturn \/ ComparePrices

SpecSearch == InitSearch /\ [][NextSearch]_vars

FairSpecSearch == SpecSearch /\ WF_vars(NextSearch)

\* check cycles one after the other, on any of the modelled items
Init ==
    /\ item \in ItemChoices
    /\ InitTables
    /\ InitSearchIdle
    /\ InitHistoryIdle
    /\ InitNormIdle
    /\ InitInventoryIdle

Next ==
    \/ Load(1)
    \/ \E d \in DirectOutcomes : DirectStep(1, d)
    \/ \E outcome \in ProbeOutcomes : ProbeStep(1, outcome)
    \/ Finish(1)
    \/ GetWeeklyShoppingList

Spec == Init /\ [][Next]_vars

\* two sessions checking the same item while the source restocks
InitConc ==
    /\ item = ItemRow(<<"amazon_sg", "little_farms">>, <<>>, TRUE, TRUE, 10)
    /\ InitTables
    /\ InitSearchIdle
    /\ InitHistoryIdle
    /\ InitNormIdle
    /\ InitInventoryIdle

NextConc ==
    \/ \E s \in AllSessions : Load(s)
    \/ \E s \in AllSessions : ProbeStep(s, WorldOutcome(NextPlatform(s)))
    \/ \E s \in AllSessions : Finish(s)
    \/ Restock

SpecConc == InitConc /\ [][NextConc]_vars

MaxAlertCycles == 2

\* the probe outcomes of the cycles whose alerts are read
AlertOutcomes ==
    { [kind |-> "ok", products |-> <<Listing(Brand, TRUE, 10)>>],
      [kind |-> "ok", products |-> <<Listing(Brand, TRUE, 9)>>],
      [kind |-> "search_raise", products |-> <<>>] }

\* checks of one item with reads of its alerts in between
InitAlerts ==
    /\ InitWatchIdle
    /\ InitSearchIdle
    /\ InitHistoryIdle
    /\ InitNormIdle
    /\ InitInventoryIdle

NextAlerts ==
    \/ LoadCycle(1, MaxAlertCycles)
    \/ \E outcome \in AlertOutcomes : ProbeStep(1, outcome)
    \/ Finish(1)
    \/ \E alert_id \in AlertIds : MarkAlertRead(alert_id)
    \/ GetUnreadAlerts

SpecAlerts == InitAlerts /\ [][NextAlerts]_vars

MaxRecheckCycles == 3

\* what a source shows in repeated checks: in stock, out of stock, a fault
RecheckOutcomes ==
    { [kind |-> "ok", products |-> <<Listing(Brand, TRUE, 10)>>],
      [kind |-> "ok", products |-> <<Listing(Brand, FALSE, 10)>>],
      [kind |-> "search_raise", products |-> <<>>] }

NextRecheck ==
    \/ LoadCycle(1, MaxRecheckCycles)
    \/ \E outcome \in RecheckOutcomes : ProbeStep(1, outcome)
    \/ Finish(1)

\* repeated checks of one item
SpecRecheck == InitAlerts /\ [][NextRecheck]_vars

MaxEntryCycles == 2

\* the row with is_active set as the table holds it
WithActive(it, is_active) == [it EXCEPT !.is_active = is_active]

\* check_all_items, task_check_watchlist and `watch check` without --id:
\* get_all_items(active_only=True), then check_availability(item) per row
CheckAllItems(s) ==
    /\ item.is_active
    /\ LoadCycle(s, MaxEntryCycles)

\* POST /api/check/{item_id} and `watch check --id`: get_item(item_id), which
\* selects by id only, then check_availability(item)
CheckItemById(s) == LoadCycle(s, MaxEntryCycles)

InitEntry ==
    /\ item \in { WithActive(ItemRow(<<"amazon_sg", "little_farms">>, <<>>, TRUE, TRUE, 10),
                              is_active) : is_active \in BOOLEAN }
    /\ InitTables
    /\ InitSearchIdle
    /\ InitHistoryIdle
    /\ InitNormIdle
    /\ InitInventoryIdle

NextEntry ==
    \/ CheckAllItems(1)
    \/ CheckItemById(1)
    \/ \E outcome \in RecheckOutcomes : ProbeStep(1, outcome)
    \/ Finish(1)
    \/ GetWeeklyShoppingList

\* the entry points that check one row, active or not
SpecEntry == InitEntry /\ [][NextEntry]_vars

\* an inventory of two rows and a draft shopping list over them
InitInventory ==
    /\ inventory = InventoryRows
    /\ consumption_log = <<>>
    /\ shopping_list = [status |-> "draft", items |-> ListItems]
    /\ inv_out = IdleInventory
    /\ InitWatchIdle
    /\ InitSearchIdle
    /\ InitHistoryIdle
    /\ InitNormIdle

NextInventory ==
    \/ \E item_id \in InventoryIds, quantity_change \in QuantityChanges,
          log_consumption \in BOOLEAN :
           UpdateQuantity(item_id, quantity_change, log_consumption)
    \/ \E item_id \in 1..(Len(shopping_list.items) + 1) : MarkItemPurchased(item_id)
    \/ \E list_id \in ListIds, update_inventory \in BOOLEAN :
           CompleteList(list_id, update_inventory)

SpecInventory == InitInventory /\ [][NextInventory]_vars

\* the price history on its own
InitHistory ==
    /\ inv_item \in {[is_active |-> a] : a \in {0, 1}}
    /\ price_records = <<>>
    /\ clock = 0
    /\ ticks = 0
    /\ hist_out = IdleHistory
    /\ InitSearchIdle
    /\ InitWatchIdle
    /\ InitNormIdle
    /\ InitInventoryIdle

NextHistory ==
    \/ \E platform \in HistoryPlatforms, quote \in Quotes : SavePriceRecord(platform, quote)
    \/ \E days \in TickDays : Tick(days)
    \/ \E threshold_percent \in AlertThresholds : GetPriceAlerts(threshold_percent)
    \/ GetBestPrice
    \/ \E days \in RetentionDays : CleanupOldRecords(days)

SpecHistory == InitHistory /\ [][NextHistory]_vars

\* the two normalizers on one input
InitNormalize ==
    /\ norm_in \in [price : NormPrices, size_str : SizeTexts]
    /\ norm_out = [model |-> Pending, adapter |-> Pending]
    /\ InitSearchIdle
    /\ InitWatchIdle
    /\ InitHistoryIdle
    /\ InitInventoryIdle

NextNormalize == CallModelNormalizer \/ CallAdapterNormalizer

SpecNormalize == InitNormalize /\ [][NextNormalize]_vars

-----------------------------------------------------------------------------
(* Properties of search_all_platforms and compare_prices (SpecSearch) *)

Registered == {AdapterOrder[i] : i \in 1..Len(AdapterOrder)}

SearchDone == search_pc \in {"returned", "compared"}

HasUnitPrice(x) == x.unit_price # None /\ x.unit_price # 0

EffectiveKey(x) == IF HasUnitPrice(x) THEN x.unit_price ELSE x.price

TotalListings ==
    LET n(p) == IF adapter_response[p].kind = "ok"
                THEN Len(adapter_response[p].products) ELSE 0
    IN n(AdapterOrder[1]) + n(AdapterOrder[2]) + n(AdapterOrder[3])

C7_FaultIsolation ==
    /\ search_pc # "raised"
    /\ SearchDone =>
           \A p \in Registered :
               /\ DictHas(search_results, p)
               /\ adapter_response[p].kind = "ok"
                      => DictGet(search_results, p).products = adapter_response[p].products

\* the first adapter raised and a later one still contributed its listings
C7_Witness ==
    /\ SearchDone
    /\ adapter_response[AdapterOrder[1]].kind = "raise"
    /\ adapter_response[AdapterOrder[2]].kind = "ok"
    /\ DictGet(search_results, AdapterOrder[2]).products # <<>>

\* C8: search_all_platforms eventually completes, also when the search call of
\* one adapter never returns.
C8_HungSourceDoesNotBlock == <>SearchDone

\* C9: in the outcome of search_all_platforms a source whose call faulted is
\* distinguishable from a source that returned no listings.
C9_FaultManifest ==
    SearchDone =>
        \A p, q \in Registered :
            (adapter_response[p].kind = "raise" /\ adapter_response[q].kind = "ok")
                => DictGet(search_results, p).products # DictGet(search_results, q).products

-----------------------------------------------------------------------------
(* Properties of check_availability and _check_alerts *)

Done(s) == sess[s].pc = "done"

Emitted(s, type, p) ==
    \E k \in 1..Len(sess[s].emitted) :
        sess[s].emitted[k].alert_type = type /\ sess[s].emitted[k].platform = p

WasInStock(s, p) == DictHas(sess[s].old, p) /\ DictGet(sess[s].old, p).in_stock

HasPrice(x) == x # None /\ x # 0

OldPrice(s, p) == IF DictHas(sess[s].old, p) THEN DictGet(sess[s].old, p).price ELSE None

RestockAlertCount(p) ==
    Cardinality({k \in 1..Len(alerts) :
                    alerts[k].alert_type = "restock" /\ alerts[k].platform = p})

Quiescent == \A s \in AllSessions : sess[s].pc # "checking"

\* C2: under overlapping check cycles of one item, one out-of-stock to
\* in-stock transition of a source yields exactly one restock alert for it:
\* never more alerts than transitions, and at least one once a completed
\* check has stored the source as in stock.
C2_OneAlertPerRestock ==
    /\ RestockAlertCount(WatchedSource) <= restocks
    /\ (Quiescent /\ DictHas(db_status, WatchedSource)
            /\ DictGet(db_status, WatchedSource).in_stock)
           => RestockAlertCount(WatchedSource) >= 1

\* C3: a completed cycle has created a restock alert for a source of the new
\* map exactly when the source was absent or out of stock in the previous
\* snapshot, is in stock in the new one, and notify_on_restock is set.
C3_RestockRule ==
    \A s \in AllSessions :
        Done(s) =>
            \A i \in 1..Len(sess[s].results) :
                LET e == sess[s].results[i]
                IN Emitted(s, "restock", e.platform)
                      <=> (e.in_stock /\ ~WasInStock(s, e.platform) /\ item.notify_on_restock)

\* C4: a completed cycle has created a price_drop alert for a source exactly
\* when the previous and the new entry both carry a price, the relative drop
\* reaches price_drop_threshold, and notify_on_price_drop is set.
C4_PriceDropRule ==
    \A s \in AllSessions :
        Done(s) =>
            \A i \in 1..Len(sess[s].results) :
                LET e == sess[s].results[i]
                    was == OldPrice(s, e.platform)
                IN Emitted(s, "price_drop", e.platform)
                      <=> /\ HasPrice(was) /\ HasPrice(e.price)
                          /\ (was - e.price) * 100 >= item.price_drop_threshold * was
                          /\ item.notify_on_price_drop

SameSnapshot(old, new) ==
    /\ DictKeys(old) = DictKeys(new)
    /\ \A p \in DictKeys(new) :
           /\ DictGet(old, p).in_stock = DictGet(new, p).in_stock
           /\ DictGet(old, p).price = DictGet(new, p).price

\* C5 (as stated): a cycle that collects a map identical to the stored
\* snapshot creates no alert, whatever the threshold and the notify flags.
C5_SteadyStateNoAlerts ==
    \A s \in AllSessions :
        (Done(s) /\ SameSnapshot(sess[s].old, sess[s].results)) => sess[s].emitted = <<>>

\* C5 (amended): a cycle that collects a map identical to the stored snapshot
\* creates no alert when price_drop_threshold is greater than zero.
C5_SteadyStatePositiveThreshold ==
    \A s \in AllSessions :
        (Done(s) /\ SameSnapshot(sess[s].old, sess[s].results)
             /\ item.price_drop_threshold > 0)
            => sess[s].emitted = <<>>

\* a second cycle saw the same in-stock, priced listing again, alerts enabled
C5_Witness ==
    /\ Done(1)
    /\ item.price_drop_threshold > 0
    /\ item.notify_on_restock /\ item.notify_on_price_drop
    /\ sess[1].old # <<>>
    /\ SameSnapshot(sess[1].old, sess[1].results)
    /\ \E i \in 1..Len(sess[1].results) :
           sess[1].results[i].in_stock /\ HasPrice(sess[1].results[i].price)

\* C6: a cycle creates at most one alert per (source, alert type).
C6_AtMostOnePerSourceType ==
    \A s \in AllSessions :
        Done(s) =>
            \A i, j \in 1..Len(sess[s].emitted) :
                (/\ sess[s].emitted[i].alert_type = sess[s].emitted[j].alert_type
                 /\ sess[s].emitted[i].platform = sess[s].emitted[j].platform) => i = j

\* one cycle created a restock and a price_drop alert for one source and an
\* alert for another source
C6_Witness ==
    /\ Done(1)
    /\ \E p, q \in DictKeys(sess[1].results) :
           /\ p # q
           /\ Emitted(1, "restock", p) /\ Emitted(1, "price_drop", p)
           /\ Emitted(1, "restock", q)

\* C10: whatever subset of the target sources faults while probed, the cycle
\* is not aborted; the snapshot it returns has an entry for every target
\* source, a faulting source's entry has in_stock false and an error, and the
\* entry of any other source holds what its own probe showed.
C10_ProbeIsolation ==
    \A s \in AllSessions :
        /\ sess[s].pc # "raised"
        /\ Done(s) =>
               /\ Len(sess[s].probes) = Len(CallPlatforms(s))
               /\ \A i \in 1..Len(CallPlatforms(s)) :
                      LET p == CallPlatforms(s)[i]
                          seen == sess[s].probes[i]
                          e == DictGet(sess[s].results, p)
                      IN /\ seen.platform = p
                         /\ DictHas(sess[s].results, p)
                         /\ seen.faulted => (~e.in_stock /\ e.error)
                         /\ (~seen.faulted /\ seen.matched)
                                => (e.in_stock = seen.in_stock /\ e.price = seen.price
                                    /\ ~e.error)
                         /\ (~seen.faulted /\ ~seen.matched)
                                => (~e.in_stock /\ e.price = None /\ ~e.error)

\* the first target's probe faulted and the second target's listing was kept
C10_Witness ==
    /\ Done(1)
    /\ Len(CallPlatforms(1)) = 2
    /\ sess[1].probes[1].faulted
    /\ ~sess[1].probes[2].faulted /\ sess[1].probes[2].matched
    /\ DictGet(sess[1].results, CallPlatforms(1)[2]).in_stock
    /\ DictGet(sess[1].results, CallPlatforms(1)[2]).price = 10

\* the sources a cycle of session s probed: the platforms of the call and
\* the product references checked by URL
ProbedSources(s) ==
    {CallPlatforms(s)[i] : i \in 1..Len(CallPlatforms(s))}
    \cup {item.platform_products[i].platform : i \in
              {k \in 1..Len(item.platform_products) :
                  item.platform_products[k].url /\ ~item.platform_products[k].search_url}}

\* C11: once a cycle has completed (and no other has completed since) the
\* stored availability_status is exactly the map that cycle collected: its
\* keys are the sources probed in the cycle, no entry of the previous snapshot
\* survives for another source, also when every probe faulted.
C11_SnapshotSwap ==
    \A s \in AllSessions :
        Done(s) =>
            /\ db_status = sess[s].results
            /\ DictKeys(db_status) = ProbedSources(s)
            /\ \A i \in 1..Len(sess[s].probes) :
                   sess[s].probes[i].faulted =>
                       /\ ~DictGet(db_status, sess[s].probes[i].platform).in_stock
                       /\ DictGet(db_status, sess[s].probes[i].platform).error

\* the previous snapshot had an in-stock entry for a source that this cycle
\* did not probe, and every probe of this cycle faulted
C11_Witness ==
    /\ Done(1)
    /\ \E p \in DictKeys(sess[1].old) :
           p \notin ProbedSources(1) /\ DictGet(sess[1].old, p).in_stock
    /\ sess[1].probes # <<>>
    /\ \A i \in 1..Len(sess[1].probes) : sess[1].probes[i].faulted

InStockPriced(snapshot) ==
    {i \in 1..Len(snapshot) : snapshot[i].in_stock /\ HasPrice(snapshot[i].price)}

\* C12: after a completed cycle last_checked_at has been set by it, the best
\* price/platform fields are those of the cheapest in-stock source of the new
\* snapshot, and they never name a source that the new snapshot has out of
\* stock.
C12_BestDealConsistent ==
    \A s \in AllSessions :
        Done(s) =>
            /\ db_last_checked = cycles
            /\ \A i \in InStockPriced(db_status) : db_best.price <= db_status[i].price
            /\ InStockPriced(db_status) # {} =>
                   \E i \in InStockPriced(db_status) :
                       /\ db_best.platform = db_status[i].platform
                       /\ db_best.price = db_status[i].price
            /\ DictHas(db_status, db_best.platform)
                   => DictGet(db_status, db_best.platform).in_stock

-----------------------------------------------------------------------------
(* Properties of get_weekly_shopping_list (Spec) *)

AnyInStock(snapshot) == \E i \in 1..Len(snapshot) : snapshot[i].in_stock

\* the least price among the in-stock, priced entries of a snapshot
BestPriceOf(snapshot) ==
    CHOOSE b \in {snapshot[i].price : i \in InStockPriced(snapshot)} :
        \A i \in InStockPriced(snapshot) : b <= snapshot[i].price

BudgetExceeded(best) == HasPrice(item.max_price) /\ best > item.max_price

\* C13: get_weekly_shopping_list returns exactly one recommendation for the
\* active item: unavailable when no source of its snapshot is in stock,
\* over_budget when a best price exists and exceeds a set max_price, and
\* available otherwise; the item is never omitted.
C13_OneRecommendationPerItem ==
    (weekly_called /\ item.is_active) =>
        /\ Len(recs) = 1
        /\ recs[1].status =
               IF ~AnyInStock(db_status) THEN "unavailable"
               ELSE IF InStockPriced(db_status) # {}
                       /\ BudgetExceeded(BestPriceOf(db_status)) THEN "over_budget"
               ELSE "available"

-----------------------------------------------------------------------------
(* Properties of the price history (SpecHistory) *)

AlertsReturned == hist_out.op = "alerts" /\ inv_item.is_active = 1

\* the claimed drop test on two entries: (previous - latest) / previous >= threshold
IsDrop(latest, previous, threshold_percent) ==
    (previous.price - latest.price) * 100 >= threshold_percent * previous.price

\* the alert list is the single drop from previous to latest, or is empty
\* when that pair is no drop
ReportsExactly(latest, previous) ==
    IF IsDrop(latest, previous, hist_out.arg)
    THEN /\ Len(hist_out.rows) = 1
         /\ hist_out.rows[1].current_price = latest.price
         /\ hist_out.rows[1].previous_price = previous.price
         /\ hist_out.rows[1].platform = latest.platform
         /\ hist_out.rows[1].change_num * previous.price
                = (latest.price - previous.price) * 100 * hist_out.rows[1].change_den
    ELSE hist_out.rows = <<>>

\* indices of the entries at most AlertWindowDays old
Recent == { i \in 1..Len(price_records) :
                clock - price_records[i].scraped_at <= AlertWindowDays }

\* C15: get_price_alerts compares the item's two most recent history entries,
\* whatever their source and whatever their age, and reports a drop iff
\* (previous.price - latest.price) / previous.price >= threshold.
C15_TwoMostRecentAnyAge ==
    AlertsReturned =>
        LET n == Len(price_records)
        IN IF n >= 2 THEN ReportsExactly(price_records[n], price_records[n - 1])
           ELSE hist_out.rows = <<>>

\* C15 (amended): the two entries compared are the two most recent ones
\* scraped within the last 7 days; with fewer than two such entries nothing
\* is reported.
C15_TwoMostRecentInWindow ==
    AlertsReturned =>
        LET n == Len(price_records)
        IN IF n >= 2 /\ (n - 1) \in Recent
           THEN ReportsExactly(price_records[n], price_records[n - 1])
           ELSE hist_out.rows = <<>>

\* a drop of exactly the threshold across two sources is reported
C15_Witness ==
    /\ AlertsReturned
    /\ hist_out.arg = 10
    /\ Len(hist_out.rows) = 1
    /\ hist_out.rows[1].previous_price = 100 /\ hist_out.rows[1].current_price = 90
    /\ LET n == Len(price_records)
       IN n >= 2 /\ price_records[n].platform # price_records[n - 1].platform

IsLatestOfItsSource(r) ==
    \A i \in 1..Len(price_records) :
        price_records[i].platform = r.platform => price_records[i].scraped_at <= r.scraped_at

InTable(r) == \E i \in 1..Len(price_records) : price_records[i] = r

\* the latest entry of each source, as a set
LatestEntries == { price_records[i] : i \in { k \in 1..Len(price_records) :
                                                  IsLatestOfItsSource(price_records[k]) } }

\* C16: get_best_price returns, among the latest entry of each source, an
\* in-stock entry of minimum price, or none when no latest entry is in stock;
\* it never returns an entry that is not the most recent of its source.
C16_BestOfLatest ==
    hist_out.op = "best" =>
        LET r == hist_out.rows[1]
        IN IF \E l \in LatestEntries : l.in_stock
           THEN /\ r \in LatestEntries
                /\ r.in_stock
                /\ \A l \in LatestEntries : l.in_stock => r.price <= l.price
           ELSE r = NoRecord

\* an older entry of the returned entry's source was in stock and cheaper
C16_Witness ==
    /\ hist_out.op = "best"
    /\ hist_out.rows[1] # NoRecord
    /\ \E i \in 1..Len(price_records) :
           /\ price_records[i].platform = hist_out.rows[1].platform
           /\ price_records[i].scraped_at < hist_out.rows[1].scraped_at
           /\ price_records[i].in_stock
           /\ price_records[i].price < hist_out.rows[1].price

SweepStep == hist_out'.op = "cleanup"

\* the sweep leaves the result of drop detection as it was
DetectionUnchanged ==
    \A t \in AlertThresholds :
        PriceAlertsFor(price_records', clock', t) = PriceAlertsFor(price_records, clock, t)

\* every removed entry is older than the window, every other entry is kept
RemovesOnlyOld ==
    /\ \A i \in 1..Len(hist_out'.removed) :
           clock - hist_out'.removed[i].scraped_at > hist_out'.arg
    /\ \A i \in 1..Len(price_records) :
           clock - price_records[i].scraped_at <= hist_out'.arg =>
               \E j \in 1..Len(price_records') : price_records'[j] = price_records[i]

\* C17: cleanup_old_records, for any retention window, never changes the
\* result of drop detection and removes no entry younger than the window.
C17_SweepIndependentAnyWindow ==
    [][SweepStep => (DetectionUnchanged /\ RemovesOnlyOld)]_vars

\* C17 (amended): the same for every retention window of at least 7 days,
\* the window drop detection reads.
C17_SweepIndependentLongWindow ==
    [][(SweepStep /\ hist_out'.arg >= AlertWindowDays)
           => (DetectionUnchanged /\ RemovesOnlyOld)]_vars

\* a sweep with a window of at least 7 days removed an entry and detection
\* still reports a drop
C17_Witness ==
    /\ hist_out.op = "cleanup"
    /\ hist_out.arg >= AlertWindowDays
    /\ hist_out.removed # <<>>
    /\ PriceAlertsFor(price_records, clock, 10) # <<>>

-----------------------------------------------------------------------------
(* Properties of the unit-price normalizers (SpecNormalize) *)

\* the input as each normalizer's pattern reads it
ModelMatch == ReMatch(Strip(Lower(norm_in.size_str)), ModelUnits)
AdapterMatch == ReMatch(Strip(Lower(norm_in.size_str)), AdapterUnits)

\* C18: each normalizer returns none, and never raises, when the size text
\* does not match its pattern or the parsed quantity is zero.
C18_NoneNeverRaises ==
    /\ norm_out.model # Pending =>
           /\ norm_out.model # Raised
           /\ (~ModelMatch.matched \/ ModelMatch.num = 0) => norm_out.model = NoneResult
    /\ norm_out.adapter # Pending =>
           /\ norm_out.adapter # Raised
           /\ (~AdapterMatch.matched \/ AdapterMatch.num = 0)
                  => norm_out.adapter = NoneResult

SameResult(a, b) ==
    /\ a.kind = b.kind
    /\ a.kind = "value" => a.num * b.den = b.num * a.den

\* C19: on every input the two normalizers return the same result, the same
\* value or both none.
C19_SingleNormalizationPath ==
    (norm_out.model # Pending /\ norm_out.adapter # Pending) =>
        /\ norm_out.model.kind \in {"value", "none"}
        /\ SameResult(norm_out.model, norm_out.adapter)

-----------------------------------------------------------------------------
(* compare_prices and the normalizer (SpecSearch) *)

\* the unit price the normalizer derives for a listing
Normalized(x) ==
    IF x.product.unit_size = NoSize THEN NoneResult
    ELSE calculate_unit_price(x.price, x.product.unit_size)

Parseable(x) == Normalized(x).kind = "value"

\* the key of a listing once the normalizer has been applied to it
NormalizedKey(x) ==
    IF HasUnitPrice(x) THEN x.unit_price
    ELSE IF Parseable(x) THEN Normalized(x).num \div Normalized(x).den
    ELSE x.price

\* C20: in the list compare_prices returns, every listing that arrived with a
\* parseable unit_size and no unit_price carries the unit price the normalizer
\* derives, and the list is ordered by that value, not by the raw price.
C20_NormalizedBeforeSort ==
    search_pc = "compared" =>
        /\ \A i \in 1..Len(compare_out) :
               (~HasUnitPrice(compare_out[i].product) /\ Parseable(compare_out[i]))
                   => compare_out[i].unit_price * Normalized(compare_out[i]).den
                          = Normalized(compare_out[i]).num
        /\ \A i, j \in 1..Len(compare_out) :
               i < j => NormalizedKey(compare_out[i]) <= NormalizedKey(compare_out[j])

-----------------------------------------------------------------------------
(* Resources, validation and alert reads (Spec) *)

\* C21: when a check_availability cycle returns, every adapter and every
\* browser session it acquired has been closed, also when the search or the
\* page load raised.
C21_GuaranteedRelease ==
    \A s \in AllSessions : sess[s].pc = "done" => sess[s].unreleased = <<>>

NamesUnknownSource(s) ==
    \E i \in 1..Len(CallPlatforms(s)) : CallPlatforms(s)[i] \notin ADAPTERS

\* C22: a check_availability call whose platform list names a source that is
\* not in the adapter registry is rejected before any source is probed: it
\* probes no registered source and never gets to store a snapshot.
C22_UnknownSourceRejected ==
    \A s \in AllSessions :
        NamesUnknownSource(s) =>
            /\ sess[s].pc # "done"
            /\ \A i \in 1..Len(sess[s].probes) : sess[s].probes[i].platform \notin ADAPTERS

-----------------------------------------------------------------------------
(* Reading alerts (SpecAlerts) *)

\* the alert row but for its is_read flag
Content(a) == [a EXCEPT !.is_read = FALSE]

\* C23: an alert row never changes except for is_read, is_read never goes
\* back to false, a row becomes read only as the row mark_alert_read was
\* called with, mark_alert_read with the id of a row makes that row read, and
\* get_unread_alerts returns no row that is read.
C23_OnlyIsReadChanges ==
    [][/\ Len(alerts') >= Len(alerts)
       /\ \A i \in 1..Len(alerts) :
              /\ Content(alerts'[i]) = Content(alerts[i])
              /\ alerts[i].is_read => alerts'[i].is_read
              /\ (alerts'[i].is_read /\ ~alerts[i].is_read)
                     => (alert_call'.op = "mark" /\ alert_call'.alert_id = i)
       /\ (alert_call'.op = "mark" /\ alert_call'.alert_id <= alert_call'.size)
              => alerts'[alert_call'.alert_id].is_read
       /\ alert_call'.op = "unread"
              => \A k \in 1..Len(alert_call'.rows) : ~alerts'[alert_call'.rows[k]].is_read
      ]_vars

\* one of two alerts has been marked read, the other is returned as unread
C23_Witness ==
    /\ Len(alerts) = 2
    /\ alerts[1].is_read /\ ~alerts[2].is_read
    /\ alert_call.op = "unread"
    /\ alert_call.rows = <<2>>

-----------------------------------------------------------------------------
(* Probe targets and brand match (Spec) *)

\* the sources of the item that have a product URL which is not a search URL
DirectSources ==
    { item.platform_products[k].platform :
          k \in { j \in 1..Len(item.platform_products) :
                      /\ item.platform_products[j].url
                      /\ ~item.platform_products[j].search_url } }

Probed(s, p) == \E i \in 1..Len(CallPlatforms(s)) : CallPlatforms(s)[i] = p

\* C24: at the end of a cycle the entry stored for a target source that has
\* a product URL is the result of the direct probe of that URL; the keyword
\* search determines the entry only of sources without one.
C24_DirectProbeDetermines ==
    \A s \in AllSessions :
        sess[s].pc = "done" =>
            \A p \in DirectSources :
                Probed(s, p) =>
                    \E i \in 1..Len(sess[s].results) :
                        sess[s].results[i].platform = p /\ sess[s].results[i].direct

\* the positions of the listings whose name contains the brand, whatever the case
BrandHits(products) ==
    { i \in 1..Len(products) : Contains(Lower(item.brand), Lower(products[i].name)) }

FirstTwoKeywords ==
    IF Len(item.search_keywords) >= 2
    THEN item.search_keywords[1] \o <<" ">> \o item.search_keywords[2]
    ELSE item.search_keywords[1]

\* C25: a search probe sends the item's first two keywords, and the entry it
\* records is taken from the first returned listing whose name contains the
\* brand as a case-insensitive substring; with no such listing the entry has
\* in_stock false and no price.
C25_BrandMatch ==
    \A s \in AllSessions :
        \A k \in 1..Len(sess[s].probes) :
            LET probe == sess[s].probes[k]
                hits == BrandHits(probe.products)
                first == CHOOSE i \in hits : \A j \in hits : i <= j
            IN ~probe.faulted =>
                   /\ item.search_keywords # <<>> => probe.query = FirstTwoKeywords
                   /\ \E i \in 1..Len(sess[s].results) :
                          LET e == sess[s].results[i]
                          IN /\ e.platform = probe.platform
                             /\ IF hits = {}
                                THEN ~e.in_stock /\ e.price = None
                                ELSE /\ e.in_stock = probe.products[first].in_stock
                                     /\ e.price = probe.products[first].price

\* the first listing does not match, the second matches in another case
C25_Witness ==
    \E k \in 1..Len(sess[1].probes) :
        LET probe == sess[1].probes[k]
        IN /\ ~probe.faulted
           /\ Len(probe.products) = 2
           /\ BrandHits(probe.products) = {2}
           /\ ~Contains(item.brand, probe.products[2].name)
           /\ \E i \in 1..Len(sess[1].results) :
                  /\ sess[1].results[i].platform = probe.platform
                  /\ sess[1].results[i].price = probe.products[2].price

-----------------------------------------------------------------------------
(* Order of compare_prices among equal keys (SpecSearch) *)

\* position of a source in the registration order
RegistrationIndex(p) == CHOOSE i \in 1..Len(AdapterOrder) : AdapterOrder[i] = p

\* the products of source p that compare_prices returned, in output order
ReturnedOf(p) ==
    LET rows == SelectSeq(compare_out, LAMBDA x : x.platform = p)
    IN [i \in 1..Len(rows) |-> rows[i].product]

\* the members of q whose key is k, in the order of q
WithKey(q, k) == SelectSeq(q, LAMBDA x : EffectiveKey(x) = k)

\* C26: in the list compare_prices returns, records with equal sort keys are
\* in source registration order and, within one source, in the order the
\* source returned them; with the ascending order of the keys this fixes the
\* whole sequence for given adapter responses.
C26_StableTieBreak ==
    search_pc = "compared" =>
        /\ \A i, j \in 1..Len(compare_out) :
               (i < j /\ EffectiveKey(compare_out[i]) = EffectiveKey(compare_out[j]))
                   => RegistrationIndex(compare_out[i].platform)
                          <= RegistrationIndex(compare_out[j].platform)
        /\ \A p \in Registered :
               adapter_response[p].kind = "ok" =>
                   \A k \in {EffectiveKey(x) : x \in ProductChoices} :
                       WithKey(ReturnedOf(p), k) = WithKey(adapter_response[p].products, k)

\* one source returned two different products with the same key, and a
\* later-registered source leads the list with a smaller key
C26_Witness ==
    /\ search_pc = "compared"
    /\ \E i, j \in 1..Len(compare_out) :
           /\ i < j
           /\ compare_out[i].platform = compare_out[j].platform
           /\ compare_out[i].product # compare_out[j].product
           /\ EffectiveKey(compare_out[i]) = EffectiveKey(compare_out[j])
    /\ \E i, j \in 1..Len(compare_out) :
           /\ i < j
           /\ RegistrationIndex(compare_out[i].platform)
                  < RegistrationIndex(compare_out[j].platform)
           /\ EffectiveKey(compare_out[i]) = EffectiveKey(compare_out[j])

-----------------------------------------------------------------------------
(* Restock alerts across faults (SpecRecheck) *)

\* the last probe of source p before this cycle that did not fault saw it
\* in stock
LastSeenInStock(s, p) ==
    \E i \in 1..Len(sess[s].seen) :
        sess[s].seen[i].platform = p /\ sess[s].seen[i].in_stock

\* C27: a cycle creates a restock alert for a source only if that source
\* went from observed out of stock to observed in stock: none for a source
\* whose last observation before the cycle was in stock, with only faulted
\* probes in between.
C27_NoRestockAfterFault ==
    \A s \in AllSessions :
        sess[s].pc = "done" =>
            \A k \in 1..Len(sess[s].emitted) :
                sess[s].emitted[k].alert_type = "restock"
                    => ~LastSeenInStock(s, sess[s].emitted[k].platform)

-----------------------------------------------------------------------------
(* Deactivated items (SpecEntry) *)

-----------------------------------------------------------------------------
(* Inventory and shopping lists (SpecInventory) *)

\* the step is a call of the service operation op
IsCall(op) == inv_out'.calls = inv_out.calls + 1 /\ inv_out'.op = op

\* the latest call completed list 1 with update_inventory true
JustCompleted ==
    /\ inv_out.op = "complete_list"
    /\ inv_out.id = 1
    /\ inv_out.flag
    /\ shopping_list.status = "completed"

\* C29: complete_list with update_inventory true on a list that is already
\* completed leaves every current_quantity unchanged; stated for the call
\* that directly follows the one that completed the list and updated the
\* inventory.
C29_CompleteListIdempotent ==
    [][(/\ JustCompleted
        /\ IsCall("complete_list")
        /\ inv_out'.id = 1
        /\ inv_out'.flag) => inventory' = inventory]_vars

\* no current_quantity is negative
NonNegative == \A i \in DOMAIN inventory : inventory[i] >= 0

\* the entry a logged consumption appends
Consumption == [inventory_item_id |-> inv_out'.id,
                quantity_consumed |-> -inv_out'.quantity_change]

\* C30 as stated: every current_quantity stays >= 0 and update_quantity
\* appends a consumption log entry exactly when the change is negative and
\* log_consumption is true.
C30_LoggedExactlyWhenNegative ==
    /\ []NonNegative
    /\ [][IsCall("update_quantity") =>
              consumption_log' =
                  IF inv_out'.quantity_change < 0 /\ inv_out'.flag
                  THEN Append(consumption_log, Consumption)
                  ELSE consumption_log]_vars

\* C30 (amended): every current_quantity stays >= 0, a consumption larger
\* than the stock leaving 0, and update_quantity appends a consumption log
\* entry exactly when the id names an inventory row, the change is negative
\* and log_consumption is true; no other operation appends one.
C30_ClampedAndLoggedForRows ==
    /\ []NonNegative
    /\ [][IF IsCall("update_quantity")
          THEN consumption_log' =
                   IF /\ inv_out'.id \in DOMAIN inventory
                      /\ inv_out'.quantity_change < 0
                      /\ inv_out'.flag
                   THEN Append(consumption_log, Consumption)
                   ELSE consumption_log
          ELSE consumption_log' = consumption_log]_vars

\* the first call consumes 3 of the row holding 1: the row is left at 0 and
\* the consumption of 3 is logged
C30_Witness ==
    /\ inv_out = [op |-> "update_quantity", id |-> 1, quantity_change |-> -3,
                  flag |-> TRUE, calls |-> 1]
    /\ inventory[1] = 0
    /\ consumption_log = <<[inventory_item_id |-> 1, quantity_consumed |-> 3]>>

====
